---- MODULE Spec2Model ----
(***************************************************************************)
(* Streaming agent-request orchestrator of src/api/routes/agent/agent.py:  *)
(* the /agent/stream endpoint, the worker thread that runs the inference   *)
(* attempts, the event queue between them, the consuming generator and the *)
(* conversation store it writes to (Spec, FairSpec); the tool-call tracker *)
(* of utils/llm/tool_streaming_callback.py under arbitrary callbacks       *)
(* (TrackerSpec); and the payload sanitizer, the history functions and the *)
(* daily-limit check as functions of their arguments (CallSpec).           *)
(*                                                                         *)
(* Text (str) is modelled as a sequence of one-character strings, so that  *)
(* "".join, truthiness, lower(), slicing and substring search are          *)
(* computed, not assumed.                                                  *)
(***************************************************************************)
EXTENDS Integers, Sequences, FiniteSets, TLC

\* ---------------------------------------------------------------- bounds
MaxChunks == 2       \* chunks the streaming attempts of one request yield in total
MaxToolCalls == 1    \* tool invocations during one request
DailyLimit == 2      \* daily_chat limit of the caller's tier
MaxCallbacks == 3    \* callbacks one tracker receives
MaxEntries == 2      \* entries of a collection handed to the sanitizer
MaxStrLen == 5       \* largest max_str_len the sanitizer is configured with
MaxRows == 3         \* messages of a conversation handed to the history functions
MaxQuota == 5        \* largest daily limit and usage handed to ensure_daily_limit
MaxArgs == 2         \* positional arguments of one tool invocation
MaxRequests == 3     \* concurrent agent requests of one user

\* ------------------------------------------------------------- constants
history_message_limit == 20
HTTP_200_OK == 200
HTTP_401_UNAUTHORIZED == 401
HTTP_402_PAYMENT_REQUIRED == 402
HTTP_404_NOT_FOUND == 404

Caller == "u1"
OtherUser == "u2"
NoOwner == "none"
ConvIds == 1..3
NoConversationId == 0
Text == <<"a", "b", "c", "d", "e", "f">>
Responses == {<<>>, SubSeq(Text, 1, 2)}
Message == <<"q">>
None == <<"None">>
Seed == <<"p">>

VARIABLES
  conversations,     \* agent_conversations table: id -> owner (NoOwner: no row)
  messages,          \* agent_messages table: conversation id -> rows, oldest first
  http_status,       \* 0 while no request was handled, else the response status
  requested_id,      \* agent_request.conversation_id (NoConversationId: absent)
  auth_user,         \* the user authentication resolved (NoOwner: none)
  appended,          \* roles of the messages this request recorded, in order
  db,                \* request-scoped session of the endpoint
  write_db,          \* scoped_session of the persisting step
  conversation_obj,  \* what the persisting step's lookup returned
  conversation_id,   \* closure variable of stream_generator
  history_messages,  \* closure variable of stream_generator
  gen_pc,            \* position of stream_generator
  full_response,     \* stream_generator's full_response (None until recorded)
  gen_exception,     \* whether the generator's except clause caught an exception
  sent,              \* data events yielded to the client, in order
  last_yield,        \* what the generator yielded last: "data" or "heartbeat"
  event_queue,       \* queue.Queue shared by worker and generator
  emitted,           \* every event the worker put on the queue, in order
  worker_pc,         \* position of run_worker
  response_chunks,   \* run_worker's response_chunks
  stream_pos,        \* characters the running streaming attempt has yielded
  tool_calls,        \* ToolStreamingCallback._tool_calls (set of call ids)
  next_call_id,      \* number of tool invocations so far
  runs,              \* inference operations started, in order
  outcomes,          \* how the finished inference operations ended, in order
  callbacks,         \* the callbacks a tracker received, each with what it left behind
  call,              \* the function call under evaluation: name and arguments
  ret,               \* what that call returned (NoReturn: not yet evaluated)
  requests           \* concurrent agent requests of one user: position and conversation

vars == <<conversations, messages, http_status, db, write_db, conversation_id,
          history_messages, gen_pc, full_response, sent, last_yield,
          event_queue, emitted, worker_pc, response_chunks, tool_calls,
          next_call_id, runs, outcomes, requested_id, appended, gen_exception,
          stream_pos, auth_user, conversation_obj, callbacks, call, ret, requests>>

dbVars == <<conversations, messages>>
reqVars == <<http_status, db, conversation_id, requested_id, auth_user>>
auxVars == <<callbacks, call, ret, requests>>
genVars == <<conversation_obj, write_db, history_messages, gen_pc, full_response, sent, last_yield,
             appended, gen_exception>>
workerVars == <<emitted, worker_pc, response_chunks, tool_calls, next_call_id, runs,
                outcomes, stream_pos>>

\* --------------------------------------------------------------- helpers
RECURSIVE Concat(_)
Concat(chunks) ==
  IF chunks = <<>> THEN <<>> ELSE Head(chunks) \o Concat(Tail(chunks))

Reverse(s) == [i \in 1..Len(s) |-> s[Len(s) + 1 - i]]

Take(s, n) == SubSeq(s, 1, IF n < Len(s) THEN n ELSE Len(s))

LastN(s, n) == SubSeq(s, IF Len(s) > n THEN Len(s) - n + 1 ELSE 1, Len(s))

Truthy(s) == s # None /\ s # <<>>

Msg(role, content) == [role |-> role, content |-> content]

Event(type, content, code, id, snapshot) ==
  [type |-> type, content |-> content, code |-> code, id |-> id,
   snapshot |-> snapshot]

StartEvent(cid) == Event("start", <<>>, "", cid, <<>>)
TokenEvent(chunk) == Event("token", chunk, "", 0, <<>>)
WarningEvent == Event("warning", <<>>, "tool_fallback", 0, <<>>)
ToolStartEvent(id) == Event("tool_start", <<>>, "", id, <<>>)
ToolEndEvent(id) == Event("tool_end", <<>>, "success", id, <<>>)
ToolErrorEvent(id) == Event("tool_error", <<>>, "error", id, <<>>)
ConversationEvent(cid, snap) == Event("conversation", <<>>, "", cid, snap)
DoneEvent == Event("done", <<>>, "", 0, <<>>)
error_msg == "unexpected_error"
ErrorEvent == Event("error", <<>>, error_msg, 0, <<>>)
InternalFinalResponse(text) == Event("_internal_final_response", text, "", 0, <<>>)
InternalWorkerError(kind) == Event("_internal_worker_error", <<>>, kind, 0, <<>>)
ExceptionKinds == {"RuntimeError", "TimeoutError"}
InternalWorkerDone == Event("_internal_worker_done", <<>>, "", 0, <<>>)

InternalTypes ==
  {"_internal_final_response", "_internal_worker_error", "_internal_worker_done"}

\* ------------------------------------------------------------ the store
fetch_recent_messages_Oldest(rows, history_limit) ==
  IF history_limit <= 0 THEN <<>>
  ELSE Take(rows, history_limit)

\* rows: the conversation's messages by created_at, oldest first
fetch_recent_messages(rows, history_limit) ==
  IF history_limit <= 0 THEN <<>>
  ELSE Reverse(Take(Reverse(rows), history_limit))

build_conversation_payload(msgs, history_limit) ==
  IF history_limit <= 0 THEN <<>> ELSE LastN(msgs, history_limit)

serialize_history(msgs, history_limit) ==
  IF history_limit <= 0 THEN <<>>
  ELSE LET recent_messages == LastN(msgs, history_limit)
       IN [i \in DOMAIN recent_messages |->
             [role |-> recent_messages[i].role,
              content |-> recent_messages[i].content]]

RECURSIVE CountRole(_, _)
CountRole(rows, role) ==
  IF rows = <<>> THEN 0
  ELSE (IF Head(rows).role = role THEN 1 ELSE 0) + CountRole(Tail(rows), role)

RECURSIVE SumUserMessages(_, _)
SumUserMessages(ids, user) ==
  IF ids = {} THEN 0
  ELSE LET c == CHOOSE x \in ids : TRUE
       IN (IF conversations[c] = user THEN CountRole(messages[c], "user") ELSE 0)
          + SumUserMessages(ids \ {c}, user)

_count_today_user_messages(user) == SumUserMessages(ConvIds, user)

is_within_limit(used_today) == used_today < DailyLimit

LimitStatus(limit_value, used_today) ==
  [limit_value |-> limit_value, used_today |-> used_today,
   remaining |-> IF limit_value - used_today > 0 THEN limit_value - used_today ELSE 0]

LimitStatus_is_within_limit(status) == status.used_today < status.limit_value

to_error_detail(status) ==
  [code |-> "daily_limit_exceeded", limit |-> status.limit_value,
   used |-> status.used_today, remaining |-> status.remaining]

NoDetail == [code |-> "", limit |-> 0, used |-> 0, remaining |-> 0]

ensure_daily_limit_AlwaysEnforce(limit_value, used_today, enforce) ==
  LET status_snapshot == LimitStatus(limit_value, used_today)
  IN IF ~LimitStatus_is_within_limit(status_snapshot)
     THEN [raised |-> TRUE, status_code |-> HTTP_402_PAYMENT_REQUIRED,
           status |-> status_snapshot, detail |-> to_error_detail(status_snapshot)]
     ELSE [raised |-> FALSE, status_code |-> 0, status |-> status_snapshot,
           detail |-> NoDetail]

ensure_daily_limit_NeverRaises(limit_value, used_today, enforce) ==
  [raised |-> FALSE, status_code |-> 0,
   status |-> LimitStatus(limit_value, used_today), detail |-> NoDetail]

\* what ensure_daily_limit does for a resolved limit and a counted usage: the
\* snapshot it returns, or the HTTPException it raises
ensure_daily_limit(limit_value, used_today, enforce) ==
  LET status_snapshot == LimitStatus(limit_value, used_today)
  IN IF ~LimitStatus_is_within_limit(status_snapshot) /\ enforce
     THEN [raised |-> TRUE, status_code |-> HTTP_402_PAYMENT_REQUIRED,
           status |-> status_snapshot, detail |-> to_error_detail(status_snapshot)]
     ELSE [raised |-> FALSE, status_code |-> 0, status |-> status_snapshot,
           detail |-> NoDetail]

FreshConversationId == CHOOSE c \in ConvIds :
  /\ conversations[c] = NoOwner
  /\ \A d \in ConvIds : conversations[d] = NoOwner => c <= d

record_agent_message(cid, role, content) ==
  [messages EXCEPT ![cid] = Append(@, Msg(role, content))]

\* ----------------------------------------------------------------- Init
Exchange == <<Msg("user", Seed), Msg("assistant", Seed)>>

RECURSIVE Exchanges(_)
Exchanges(k) == IF k = 0 THEN <<>> ELSE Exchange \o Exchanges(k - 1)

InitialOwner(c) == IF c = 1 THEN Caller ELSE IF c = 2 THEN OtherUser ELSE NoOwner

\* the state before the request is handled, with k earlier exchanges of the
\* caller today
StreamIdle(k) ==
  /\ conversations = [c \in ConvIds |-> InitialOwner(c)]
  /\ messages = [c \in ConvIds |->
                   IF c = 1 THEN Exchanges(k) ELSE IF c = 2 THEN Exchange ELSE <<>>]
  /\ http_status = 0
  /\ db = "open"
  /\ write_db = "unopened"
  /\ conversation_obj = "unset"
  /\ conversation_id = NoConversationId
  /\ history_messages = <<>>
  /\ gen_pc = "idle"
  /\ full_response = None
  /\ sent = <<>>
  /\ last_yield = "none"
  /\ event_queue = <<>>
  /\ emitted = <<>>
  /\ worker_pc = "not_started"
  /\ response_chunks = <<>>
  /\ stream_pos = 0
  /\ tool_calls = {}
  /\ next_call_id = 0
  /\ runs = <<>>
  /\ outcomes = <<>>
  /\ requested_id = NoConversationId
  /\ auth_user = NoOwner
  /\ appended = <<>>
  /\ gen_exception = FALSE

NoCall == [fn |-> "none"]
NoReturn == [returned |-> FALSE]
NoRequests == <<>>

Init ==
  /\ \E k \in {DailyLimit - 1, DailyLimit} : StreamIdle(k)
  /\ callbacks = <<>>
  /\ call = NoCall
  /\ ret = NoReturn
  /\ requests = NoRequests

\* ------------------------------------------------------------- endpoint
get_or_create_conversation_found_AnyOwner(user, requested) ==
  IF requested # NoConversationId
  THEN conversations[requested] # NoOwner
  ELSE TRUE

get_or_create_conversation_found(user, requested) ==
  IF requested # NoConversationId
  THEN conversations[requested] = user
  ELSE TRUE

get_or_create_conversation_id_Reuse(requested) ==
  IF requested # NoConversationId THEN requested ELSE 1

get_or_create_conversation_id(requested) ==
  IF requested # NoConversationId THEN requested ELSE FreshConversationId

agent_stream_endpoint_NoUserMessage(authenticated, requested) ==
  /\ http_status = 0
  /\ UNCHANGED <<conversation_obj, write_db, full_response, sent, last_yield, event_queue,
                 gen_exception>>
  /\ UNCHANGED workerVars
  /\ requested_id' = requested
  /\ auth_user' = IF authenticated THEN Caller ELSE NoOwner
  /\ UNCHANGED auxVars
  /\ db' = "closed"
  /\ IF ~authenticated
     THEN /\ http_status' = HTTP_401_UNAUTHORIZED
          /\ UNCHANGED <<conversations, messages, conversation_id,
                         history_messages, gen_pc, appended>>
     ELSE IF ~is_within_limit(_count_today_user_messages(Caller))
     THEN /\ http_status' = HTTP_402_PAYMENT_REQUIRED
          /\ UNCHANGED <<conversations, messages, conversation_id,
                         history_messages, gen_pc, appended>>
     ELSE IF ~get_or_create_conversation_found(Caller, requested)
     THEN /\ http_status' = HTTP_404_NOT_FOUND
          /\ UNCHANGED <<conversations, messages, conversation_id,
                         history_messages, gen_pc, appended>>
     ELSE LET cid == get_or_create_conversation_id(requested)
              rows == record_agent_message(cid, "user", Message)
          IN /\ conversations' = [conversations EXCEPT ![cid] = Caller]
             /\ messages' = messages
             /\ appended' = appended
             /\ conversation_id' = cid
             /\ history_messages' =
                  fetch_recent_messages(rows[cid], history_message_limit)
             /\ http_status' = HTTP_200_OK
             /\ gen_pc' = "start"

agent_stream_endpoint_KeepsSession(authenticated, requested) ==
  /\ http_status = 0
  /\ UNCHANGED <<conversation_obj, write_db, full_response, sent, last_yield, event_queue,
                 gen_exception>>
  /\ UNCHANGED workerVars
  /\ requested_id' = requested
  /\ auth_user' = IF authenticated THEN Caller ELSE NoOwner
  /\ UNCHANGED auxVars
  /\ db' = IF authenticated
                 /\ is_within_limit(_count_today_user_messages(Caller))
                 /\ get_or_create_conversation_found(Caller, requested)
           THEN "open" ELSE "closed"
  /\ IF ~authenticated
     THEN /\ http_status' = HTTP_401_UNAUTHORIZED
          /\ UNCHANGED <<conversations, messages, conversation_id,
                         history_messages, gen_pc, appended>>
     ELSE IF ~is_within_limit(_count_today_user_messages(Caller))
     THEN /\ http_status' = HTTP_402_PAYMENT_REQUIRED
          /\ UNCHANGED <<conversations, messages, conversation_id,
                         history_messages, gen_pc, appended>>
     ELSE IF ~get_or_create_conversation_found(Caller, requested)
     THEN /\ http_status' = HTTP_404_NOT_FOUND
          /\ UNCHANGED <<conversations, messages, conversation_id,
                         history_messages, gen_pc, appended>>
     ELSE LET cid == get_or_create_conversation_id(requested)
              rows == record_agent_message(cid, "user", Message)
          IN /\ conversations' = [conversations EXCEPT ![cid] = Caller]
             /\ messages' = rows
             /\ appended' = Append(appended, "user")
             /\ conversation_id' = cid
             /\ history_messages' =
                  fetch_recent_messages(rows[cid], history_message_limit)
             /\ http_status' = HTTP_200_OK
             /\ gen_pc' = "start"

agent_stream_endpoint(authenticated, requested) ==
  /\ http_status = 0
  /\ UNCHANGED <<conversation_obj, write_db, full_response, sent, last_yield, event_queue,
                 gen_exception>>
  /\ UNCHANGED workerVars
  /\ requested_id' = requested
  /\ auth_user' = IF authenticated THEN Caller ELSE NoOwner
  /\ UNCHANGED auxVars
  /\ db' = "closed"
  /\ IF ~authenticated
     THEN /\ http_status' = HTTP_401_UNAUTHORIZED
          /\ UNCHANGED <<conversations, messages, conversation_id,
                         history_messages, gen_pc, appended>>
     ELSE IF ~is_within_limit(_count_today_user_messages(Caller))
     THEN /\ http_status' = HTTP_402_PAYMENT_REQUIRED
          /\ UNCHANGED <<conversations, messages, conversation_id,
                         history_messages, gen_pc, appended>>
     ELSE IF ~get_or_create_conversation_found(Caller, requested)
     THEN /\ http_status' = HTTP_404_NOT_FOUND
          /\ UNCHANGED <<conversations, messages, conversation_id,
                         history_messages, gen_pc, appended>>
     ELSE LET cid == get_or_create_conversation_id(requested)
              rows == record_agent_message(cid, "user", Message)
          IN /\ conversations' = [conversations EXCEPT ![cid] = Caller]
             /\ messages' = rows
             /\ appended' = Append(appended, "user")
             /\ conversation_id' = cid
             /\ history_messages' =
                  fetch_recent_messages(rows[cid], history_message_limit)
             /\ http_status' = HTTP_200_OK
             /\ gen_pc' = "start"

\* ---------------------------------------------------------- tool wrappers
\* A callable: its name, the parameters its public signature lists, the
\* parameters of the function that finally runs, and the user id its closure
\* injects (NoOwner: a raw tool, nothing injected).
Callable(name, signature, params, injected) ==
  [name |-> name, signature |-> signature, params |-> params,
   injected |-> injected]

RawTool(name, params) == Callable(name, params, params, NoOwner)

Absent == "absent"

Names(params) == {params[i] : i \in DOMAIN params}

IsNotUserId(name) == name # "user_id"

_wrap_tool(tool, user_id) ==
  IF "user_id" \in Names(tool.signature)
  THEN Callable(tool.name, SelectSeq(tool.signature, IsNotUserId), tool.params,
                user_id)
  ELSE tool

\* tool(*args, **kwargs): Python binds the arguments to the parameters, or
\* raises TypeError (too many positional arguments, a parameter given twice,
\* an unexpected keyword, a missing argument)
Bind(params, args, kwargs) ==
  IF \/ Len(args) > Len(params)
     \/ \E i \in 1..Len(args) : i <= Len(params) /\ kwargs[params[i]] # Absent
     \/ \E name \in DOMAIN kwargs : kwargs[name] # Absent /\ name \notin Names(params)
     \/ \E i \in DOMAIN params : i > Len(args) /\ kwargs[params[i]] = Absent
  THEN [raised |-> TRUE, bound |-> <<>>]
  ELSE [raised |-> FALSE,
        bound |-> [i \in DOMAIN params |->
                    IF i <= Len(args) THEN args[i] ELSE kwargs[params[i]]]]

\* calling a callable: wrapped_tool sets kwargs["user_id"] and calls the tool
Invoke_SetDefault(callable, args, kwargs) ==
  Bind(callable.params, args,
       IF callable.injected = NoOwner \/ kwargs["user_id"] # Absent THEN kwargs
       ELSE [kwargs EXCEPT !["user_id"] = callable.injected])

Invoke(callable, args, kwargs) ==
  Bind(callable.params, args,
       IF callable.injected = NoOwner THEN kwargs
       ELSE [kwargs EXCEPT !["user_id"] = callable.injected])

\* --------------------------------------------------------------- worker
emit(event) ==
  /\ event_queue' = Append(event_queue, event)
  /\ emitted' = Append(emitted, event)

emit2(first, second) ==
  /\ event_queue' = event_queue \o <<first, second>>
  /\ emitted' = emitted \o <<first, second>>

Streaming == worker_pc \in {"stream_tools", "stream_no_tools"}

\* the chunks run_streaming can yield next: an empty piece or the next
\* character of the answer
Chunks == {<<>>, <<Text[stream_pos + 1]>>}

\* run_streaming yields one chunk: stream_with_inference records and emits it
StreamChunk(chunk) ==
  /\ Streaming
  /\ tool_calls = {}
  /\ Len(response_chunks) < MaxChunks
  /\ response_chunks' = Append(response_chunks, chunk)
  /\ stream_pos' = stream_pos + Len(chunk)
  /\ emit(TokenEvent(chunk))
  /\ UNCHANGED <<worker_pc, tool_calls, next_call_id, runs, outcomes>>
  /\ UNCHANGED <<dbVars, reqVars, auxVars, genVars>>

\* ------------------------------------------------------ payload sanitizer
\* A payload value: None, a number, a str, bytes, a dict (entries in insertion
\* order, keys distinct), a list (entries with the empty key), a pydantic
\* model (items: what model_dump gives) or another object (str: its str()).
Value(kind, str, items) == [kind |-> kind, str |-> str, items |-> items]
Entry(key, val) == [key |-> key, val |-> val]
NoneValue == Value("none", <<>>, <<>>)
Number == Value("int", <<"1">>, <<>>)
Str(s) == Value("str", s, <<>>)
Bytes(b) == Value("bytes", b, <<>>)
Dict(items) == Value("dict", <<>>, items)
List(items) == Value("list", <<>>, items)
Model(items) == Value("model", <<>>, items)
Object(s) == Value("object", s, <<>>)

UpperCase == <<"A", "B", "C", "D", "E", "F", "G", "H", "I", "J", "K", "L", "M",
               "N", "O", "P", "Q", "R", "S", "T", "U", "V", "W", "X", "Y", "Z">>
LowerCase == <<"a", "b", "c", "d", "e", "f", "g", "h", "i", "j", "k", "l", "m",
               "n", "o", "p", "q", "r", "s", "t", "u", "v", "w", "x", "y", "z">>

\* str.lower()
lower(s) ==
  [i \in DOMAIN s |->
     IF \E n \in DOMAIN UpperCase : UpperCase[n] = s[i]
     THEN LowerCase[CHOOSE n \in DOMAIN UpperCase : UpperCase[n] = s[i]]
     ELSE s[i]]

\* part in s
Contains(s, part) ==
  \E i \in 1..(Len(s) - Len(part) + 1) : SubSeq(s, i, i + Len(part) - 1) = part

Digit == <<"0", "1", "2", "3", "4", "5", "6", "7", "8", "9">>

\* str(n) of a natural number
RECURSIVE Decimal(_)
Decimal(n) ==
  IF n < 10 THEN <<Digit[n + 1]>> ELSE Decimal(n \div 10) \o <<Digit[(n % 10) + 1]>>

secret_substrings ==
  {<<"k", "e", "y">>,
   <<"t", "o", "k", "e", "n">>,
   <<"s", "e", "c", "r", "e", "t">>,
   <<"a", "u", "t", "h", "o", "r", "i", "z", "a", "t", "i", "o", "n">>,
   <<"c", "o", "o", "k", "i", "e">>}

REDACTED == <<"[", "R", "E", "D", "A", "C", "T", "E", "D", "]">>
TRUNCATED == <<"<", "t", "r", "u", "n", "c", "a", "t", "e", "d", ">">>

_looks_like_secret_key_CaseSensitive(key) ==
  \E part \in secret_substrings : Contains(key, part)

_looks_like_secret_key(key) ==
  LET lowered == lower(key)
  IN \E part \in secret_substrings : Contains(lowered, part)

_truncate_str(value, max_len) ==
  IF Len(value) <= max_len THEN value
  ELSE Take(value, IF max_len - 3 > 0 THEN max_len - 3 ELSE 0) \o <<".", ".", ".">>

\* out[key] = val: an existing key keeps its place
DictSet(out, key, val) ==
  IF \E i \in DOMAIN out : out[i].key = key
  THEN [i \in DOMAIN out |-> IF out[i].key = key THEN Entry(key, val) ELSE out[i]]
  ELSE Append(out, Entry(key, val))

MoreItems(n) == Str(<<"+">> \o Decimal(n) \o <<" ", "m", "o", "r", "e", " ", "i", "t", "e", "m", "s">>)
TruncatedItems(n) == Str(<<"<", "t", "r", "u", "n", "c", "a", "t", "e", "d", " ", "+">> \o Decimal(n) \o <<" ", "i", "t", "e", "m", "s", ">">>)
BytesLen(n) == Str(<<"<", "b", "y", "t", "e", "s", " ", "l", "e", "n", "=">> \o Decimal(n) \o <<">">>)

RECURSIVE sanitize_tool_payload(_, _, _, _)
RECURSIVE sanitize_dict_items(_, _, _, _, _, _)

\* the loop over value.items(): i counts the entries already visited
sanitize_dict_items(items, i, out, max_depth, max_items, max_str_len) ==
  IF i >= Len(items) THEN out
  ELSE IF i >= max_items
  THEN DictSet(out, TRUNCATED, MoreItems(Len(items) - max_items))
  ELSE LET key_str == items[i + 1].key
           v == items[i + 1].val
       IN sanitize_dict_items(items, i + 1,
            IF _looks_like_secret_key(key_str)
            THEN DictSet(out, key_str, Str(REDACTED))
            ELSE DictSet(out, key_str,
                   sanitize_tool_payload(v, max_depth - 1, max_items, max_str_len)),
            max_depth, max_items, max_str_len)

sanitize_tool_payload(value, max_depth, max_items, max_str_len) ==
  IF max_depth <= 0 THEN Str(TRUNCATED)
  ELSE IF value.kind \in {"none", "int"} THEN value
  ELSE IF value.kind = "str" THEN Str(_truncate_str(value.str, max_str_len))
  ELSE IF value.kind = "bytes" THEN BytesLen(Len(value.str))
  ELSE IF value.kind = "dict"
  THEN Dict(sanitize_dict_items(value.items, 0, <<>>, max_depth, max_items,
                                max_str_len))
  ELSE IF value.kind = "model"
  THEN sanitize_tool_payload(Dict(value.items), max_depth - 1, max_items,
                             max_str_len)
  ELSE IF value.kind = "object" THEN Str(_truncate_str(value.str, max_str_len))
  ELSE LET seq == value.items
           trimmed == Take(seq, max_items)
           out_list == [i \in DOMAIN trimmed |->
                          Entry(<<>>, sanitize_tool_payload(trimmed[i].val,
                                        max_depth - 1, max_items, max_str_len))]
       IN List(IF Len(seq) > max_items
               THEN Append(out_list, Entry(<<>>, TruncatedItems(Len(seq) - max_items)))
               ELSE out_list)

\* ------------------------------------------------- ToolStreamingCallback
INTERNAL_TOOLS == {"finish", "Finish"}

NoCallId == 0
GeneratedBase == 100

\* what a callback's instance argument exposes: __name__, name, its type's name
\* ("" where the attribute is missing or empty)
Instance(dunder_name, name, type_name) ==
  [dunder_name |-> dunder_name, name |-> name, type_name |-> type_name]

AlertAdmin == Instance("alert_admin", "", "function")

Instances ==
  {AlertAdmin, Instance("", "finish", "Tool"), Instance("", "search", "Tool"),
   Instance("", "", "Finish")}

_tool_name(instance) ==
  IF instance.dunder_name # "" THEN instance.dunder_name
  ELSE IF instance.name # "" THEN instance.name
  ELSE instance.type_name

\* uuid.uuid4(): an id no earlier call carried
uuid4 ==
  GeneratedBase + 1
  + Cardinality({i \in DOMAIN emitted : /\ emitted[i].type = "tool_start"
                                        /\ emitted[i].id > GeneratedBase})

on_tool_start_NoInternalCheck(call_id, instance) ==
  LET tool_call_id == IF call_id # NoCallId THEN call_id ELSE uuid4
  IN /\ tool_calls' = tool_calls \cup {tool_call_id}
     /\ emit(ToolStartEvent(tool_call_id))

on_tool_start(call_id, instance) ==
  IF _tool_name(instance) \in INTERNAL_TOOLS
  THEN UNCHANGED <<tool_calls, event_queue, emitted>>
  ELSE LET tool_call_id == IF call_id # NoCallId THEN call_id ELSE uuid4
       IN /\ tool_calls' = tool_calls \cup {tool_call_id}
          /\ emit(ToolStartEvent(tool_call_id))

on_tool_end_Get(call_id, exception) ==
  IF call_id \notin tool_calls
  THEN UNCHANGED <<tool_calls, event_queue, emitted>>
  ELSE /\ tool_calls' = tool_calls
       /\ emit(IF exception THEN ToolErrorEvent(call_id) ELSE ToolEndEvent(call_id))

on_tool_end(call_id, exception) ==
  IF call_id \notin tool_calls
  THEN UNCHANGED <<tool_calls, event_queue, emitted>>
  ELSE /\ tool_calls' = tool_calls \ {call_id}
       /\ emit(IF exception THEN ToolErrorEvent(call_id) ELSE ToolEndEvent(call_id))

\* the agent invokes a tool: the tracker's on_tool_start runs. The agent calls
\* its tools one at a time, before the answer field is streamed.
ToolInvoked ==
  /\ worker_pc \in {"stream_tools", "run"}
  /\ stream_pos = 0
  /\ tool_calls = {}
  /\ next_call_id < MaxToolCalls
  /\ next_call_id' = next_call_id + 1
  /\ on_tool_start(next_call_id + 1, AlertAdmin)
  /\ UNCHANGED <<worker_pc, response_chunks, runs, outcomes, stream_pos>>
  /\ UNCHANGED <<dbVars, reqVars, auxVars, genVars>>

\* the tool returns or raises: the tracker's on_tool_end runs
ToolFinished(call_id, exception) ==
  /\ call_id \in tool_calls
  /\ on_tool_end(call_id, exception)
  /\ UNCHANGED <<worker_pc, response_chunks, next_call_id, runs, outcomes,
                 stream_pos>>
  /\ UNCHANGED <<dbVars, reqVars, auxVars, genVars>>

StreamComplete_NoFallback ==
  /\ Streaming
  /\ tool_calls = {}
  /\ emit(InternalFinalResponse(Concat(response_chunks)))
  /\ worker_pc' = "finally"
  /\ runs' = runs
  /\ outcomes' = Append(outcomes, "returned")
  /\ stream_pos' = 0
  /\ UNCHANGED <<response_chunks, tool_calls, next_call_id>>
  /\ UNCHANGED <<dbVars, reqVars, auxVars, genVars>>

StreamComplete_AlwaysFallback ==
  /\ Streaming
  /\ tool_calls = {}
  /\ worker_pc' = "run"
  /\ runs' = Append(runs, "run")
  /\ UNCHANGED <<event_queue, emitted>>
  /\ outcomes' = Append(outcomes, "returned")
  /\ stream_pos' = 0
  /\ UNCHANGED <<response_chunks, tool_calls, next_call_id>>
  /\ UNCHANGED <<dbVars, reqVars, auxVars, genVars>>

\* a streaming attempt ends normally: join the chunks, then either report the
\* final response or go on to the blocking run
StreamComplete ==
  /\ Streaming
  /\ tool_calls = {}
  /\ IF Truthy(Concat(response_chunks))
     THEN /\ emit(InternalFinalResponse(Concat(response_chunks)))
          /\ worker_pc' = "finally"
          /\ runs' = runs
     ELSE /\ worker_pc' = "run"
          /\ runs' = Append(runs, "run")
          /\ UNCHANGED <<event_queue, emitted>>
  /\ outcomes' = Append(outcomes, "returned")
  /\ stream_pos' = 0
  /\ UNCHANGED <<response_chunks, tool_calls, next_call_id>>
  /\ UNCHANGED <<dbVars, reqVars, auxVars, genVars>>

ToolStreamRaises_NoRetry ==
  /\ worker_pc = "stream_tools"
  /\ tool_calls = {}
  /\ emit(InternalWorkerError("RuntimeError"))
  /\ worker_pc' = "finally"
  /\ outcomes' = Append(outcomes, "raised")
  /\ stream_pos' = 0
  /\ UNCHANGED <<response_chunks, tool_calls, next_call_id, runs>>
  /\ UNCHANGED <<dbVars, reqVars, auxVars, genVars>>

ToolStreamRaises_ResetChunks ==
  /\ worker_pc = "stream_tools"
  /\ tool_calls = {}
  /\ emit(WarningEvent)
  /\ worker_pc' = "stream_no_tools"
  /\ runs' = Append(runs, "stream_no_tools")
  /\ outcomes' = Append(outcomes, "raised")
  /\ stream_pos' = 0
  /\ response_chunks' = <<>>
  /\ UNCHANGED <<tool_calls, next_call_id>>
  /\ UNCHANGED <<dbVars, reqVars, auxVars, genVars>>

\* the tool-enabled attempt raises: warn and stream again without tools
ToolStreamRaises ==
  /\ worker_pc = "stream_tools"
  /\ tool_calls = {}
  /\ emit(WarningEvent)
  /\ worker_pc' = "stream_no_tools"
  /\ runs' = Append(runs, "stream_no_tools")
  /\ outcomes' = Append(outcomes, "raised")
  /\ stream_pos' = 0
  /\ UNCHANGED <<response_chunks, tool_calls, next_call_id>>
  /\ UNCHANGED <<dbVars, reqVars, auxVars, genVars>>

\* the tools-disabled attempt or the blocking run raises: outer except
WorkerRaises(kind) ==
  /\ worker_pc \in {"stream_no_tools", "run"}
  /\ tool_calls = {}
  /\ emit(InternalWorkerError(kind))
  /\ worker_pc' = "finally"
  /\ outcomes' = Append(outcomes, "raised")
  /\ stream_pos' = 0
  /\ UNCHANGED <<response_chunks, tool_calls, next_call_id, runs>>
  /\ UNCHANGED <<dbVars, reqVars, auxVars, genVars>>

RunReturns_NoToken(response) ==
  /\ worker_pc = "run"
  /\ tool_calls = {}
  /\ emit(InternalFinalResponse(response))
  /\ worker_pc' = "finally"
  /\ outcomes' = Append(outcomes, "returned")
  /\ UNCHANGED <<response_chunks, tool_calls, next_call_id, runs, stream_pos>>
  /\ UNCHANGED <<dbVars, reqVars, auxVars, genVars>>

\* the blocking run returns: one token with the whole response
RunReturns(response) ==
  /\ worker_pc = "run"
  /\ tool_calls = {}
  /\ emit2(TokenEvent(response), InternalFinalResponse(response))
  /\ worker_pc' = "finally"
  /\ outcomes' = Append(outcomes, "returned")
  /\ UNCHANGED <<response_chunks, tool_calls, next_call_id, runs, stream_pos>>
  /\ UNCHANGED <<dbVars, reqVars, auxVars, genVars>>

WorkerFinally_Silent ==
  /\ worker_pc = "finally"
  /\ worker_pc' = "exited"
  /\ UNCHANGED <<event_queue, emitted>>
  /\ UNCHANGED <<response_chunks, tool_calls, next_call_id, runs, outcomes,
                 stream_pos>>
  /\ UNCHANGED <<dbVars, reqVars, auxVars, genVars>>

WorkerFinally ==
  /\ worker_pc = "finally"
  /\ emit(InternalWorkerDone)
  /\ worker_pc' = "exited"
  /\ UNCHANGED <<response_chunks, tool_calls, next_call_id, runs, outcomes,
                 stream_pos>>
  /\ UNCHANGED <<dbVars, reqVars, auxVars, genVars>>

\* ------------------------------------------------------------ generator
GenStart_Silent ==
  /\ gen_pc = "start"
  /\ gen_pc' = "spawn"
  /\ UNCHANGED <<conversation_obj, write_db, history_messages, full_response, last_yield,
                 appended, gen_exception, sent>>
  /\ UNCHANGED <<dbVars, reqVars, auxVars, event_queue, workerVars>>

GenStart ==
  /\ gen_pc = "start"
  /\ sent' = Append(sent, StartEvent(conversation_id))
  /\ last_yield' = "data"
  /\ gen_pc' = "spawn"
  /\ UNCHANGED <<conversation_obj, write_db, history_messages, full_response, appended, gen_exception>>
  /\ UNCHANGED <<dbVars, reqVars, auxVars, event_queue, workerVars>>

GenSpawnWorker ==
  /\ gen_pc = "spawn"
  /\ worker_pc' = "stream_tools"
  /\ runs' = Append(runs, "stream_tools")
  /\ gen_pc' = "loop"
  /\ UNCHANGED <<conversation_obj, write_db, history_messages, full_response, sent, last_yield,
                 appended, gen_exception>>
  /\ UNCHANGED <<emitted, response_chunks, tool_calls, next_call_id, outcomes,
                 stream_pos>>
  /\ UNCHANGED <<dbVars, reqVars, auxVars, event_queue>>

GenHeartbeat ==
  /\ gen_pc = "loop"
  /\ event_queue = <<>>
  /\ last_yield' = "heartbeat"
  /\ UNCHANGED <<conversation_obj, write_db, history_messages, gen_pc, full_response, sent,
                 appended, gen_exception>>
  /\ UNCHANGED <<dbVars, reqVars, auxVars, event_queue, workerVars>>

GenHandle_ErrorContinues(event) ==
  IF event.type = "_internal_final_response"
  THEN /\ full_response' = event.content
       /\ UNCHANGED <<gen_pc, sent, last_yield>>
  ELSE IF event.type = "_internal_worker_error"
  THEN /\ sent' = Append(sent, ErrorEvent)
       /\ last_yield' = "data"
       /\ UNCHANGED <<gen_pc, full_response>>
  ELSE IF event.type = "_internal_worker_done"
  THEN /\ gen_pc' = IF Truthy(full_response) THEN "persist" ELSE "done"
       /\ UNCHANGED <<full_response, sent, last_yield>>
  ELSE /\ sent' = Append(sent, event)
       /\ last_yield' = "data"
       /\ UNCHANGED <<gen_pc, full_response>>

GenHandle_ForwardsError(event) ==
  IF event.type = "_internal_final_response"
  THEN /\ full_response' = event.content
       /\ UNCHANGED <<gen_pc, sent, last_yield>>
  ELSE IF event.type = "_internal_worker_error"
  THEN /\ sent' = Append(sent, Event("error", <<>>, event.code, 0, <<>>))
       /\ last_yield' = "data"
       /\ gen_pc' = "closed"
       /\ UNCHANGED full_response
  ELSE IF event.type = "_internal_worker_done"
  THEN /\ gen_pc' = IF Truthy(full_response) THEN "persist" ELSE "done"
       /\ UNCHANGED <<full_response, sent, last_yield>>
  ELSE /\ sent' = Append(sent, event)
       /\ last_yield' = "data"
       /\ UNCHANGED <<gen_pc, full_response>>

GenHandle_FinalBreaks(event) ==
  IF event.type = "_internal_final_response"
  THEN /\ full_response' = event.content
       /\ gen_pc' = IF Truthy(event.content) THEN "persist" ELSE "done"
       /\ UNCHANGED <<sent, last_yield>>
  ELSE IF event.type = "_internal_worker_error"
  THEN /\ sent' = Append(sent, ErrorEvent)
       /\ last_yield' = "data"
       /\ gen_pc' = "closed"
       /\ UNCHANGED full_response
  ELSE IF event.type = "_internal_worker_done"
  THEN /\ gen_pc' = IF Truthy(full_response) THEN "persist" ELSE "done"
       /\ UNCHANGED <<full_response, sent, last_yield>>
  ELSE /\ sent' = Append(sent, event)
       /\ last_yield' = "data"
       /\ UNCHANGED <<gen_pc, full_response>>

GenHandle(event) ==
  IF event.type = "_internal_final_response"
  THEN /\ full_response' = event.content
       /\ UNCHANGED <<gen_pc, sent, last_yield>>
  ELSE IF event.type = "_internal_worker_error"
  THEN /\ sent' = Append(sent, ErrorEvent)
       /\ last_yield' = "data"
       /\ gen_pc' = "closed"
       /\ UNCHANGED full_response
  ELSE IF event.type = "_internal_worker_done"
  THEN /\ gen_pc' = IF Truthy(full_response) THEN "persist" ELSE "done"
       /\ UNCHANGED <<full_response, sent, last_yield>>
  ELSE /\ sent' = Append(sent, event)
       /\ last_yield' = "data"
       /\ UNCHANGED <<gen_pc, full_response>>

GenGet_Lifo ==
  /\ gen_pc = "loop"
  /\ event_queue # <<>>
  /\ event_queue' = SubSeq(event_queue, 1, Len(event_queue) - 1)
  /\ GenHandle(event_queue[Len(event_queue)])
  /\ UNCHANGED <<conversation_obj, write_db, history_messages, appended, gen_exception>>
  /\ UNCHANGED <<dbVars, reqVars, auxVars, workerVars>>

GenGet ==
  /\ gen_pc = "loop"
  /\ event_queue # <<>>
  /\ event_queue' = Tail(event_queue)
  /\ GenHandle(Head(event_queue))
  /\ UNCHANGED <<conversation_obj, write_db, history_messages, appended, gen_exception>>
  /\ UNCHANGED <<dbVars, reqVars, auxVars, workerVars>>

GenPersist_AlwaysSnapshot ==
  /\ gen_pc = "persist"
  /\ write_db' = "closed"
  /\ IF conversations[conversation_id] # NoOwner
     THEN /\ conversation_obj' = "found"
          /\ messages' = record_agent_message(conversation_id, "assistant",
                                              full_response)
          /\ history_messages' =
               Append(history_messages, Msg("assistant", full_response))
          /\ appended' = Append(appended, "assistant")
     ELSE /\ conversation_obj' = "none"
          /\ UNCHANGED <<messages, history_messages, appended>>
  /\ gen_pc' = "conversation"
  /\ UNCHANGED <<conversations, full_response, sent, last_yield, gen_exception>>
  /\ UNCHANGED <<reqVars, auxVars, event_queue, workerVars>>

\* the persisting step: a fresh session, the conversation fetched again
GenPersist ==
  /\ gen_pc = "persist"
  /\ write_db' = "closed"
  /\ IF conversations[conversation_id] # NoOwner
     THEN /\ conversation_obj' = "found"
          /\ messages' = record_agent_message(conversation_id, "assistant",
                                              full_response)
          /\ history_messages' =
               Append(history_messages, Msg("assistant", full_response))
          /\ appended' = Append(appended, "assistant")
          /\ gen_pc' = "conversation"
     ELSE /\ conversation_obj' = "none"
          /\ gen_pc' = "done"
          /\ UNCHANGED <<messages, history_messages, appended>>
  /\ UNCHANGED <<conversations, full_response, sent, last_yield, gen_exception>>
  /\ UNCHANGED <<reqVars, auxVars, event_queue, workerVars>>

\* the persisting step raises: the lookup fails (query_raises), or the lookup
\* finds the record and record_agent_message fails (db_transaction turns any
\* failure into an HTTPException). The generator's except clause answers with
\* error.
GenPersistFails(query_raises) ==
  /\ gen_pc = "persist"
  /\ query_raises \/ conversations[conversation_id] # NoOwner
  /\ conversation_obj' = IF query_raises THEN "unset" ELSE "found"
  /\ write_db' = "closed"
  /\ sent' = Append(sent, ErrorEvent)
  /\ last_yield' = "data"
  /\ gen_exception' = TRUE
  /\ gen_pc' = "closed"
  /\ UNCHANGED <<history_messages, full_response, appended>>
  /\ UNCHANGED <<dbVars, reqVars, auxVars, event_queue, workerVars>>

\* the persisting step raises after the commit: record_agent_message has
\* committed the assistant message and one of its refresh queries fails
GenPersistRefreshFails ==
  /\ gen_pc = "persist"
  /\ conversations[conversation_id] # NoOwner
  /\ conversation_obj' = "found"
  /\ write_db' = "closed"
  /\ messages' = record_agent_message(conversation_id, "assistant", full_response)
  /\ appended' = Append(appended, "assistant")
  /\ sent' = Append(sent, ErrorEvent)
  /\ last_yield' = "data"
  /\ gen_exception' = TRUE
  /\ gen_pc' = "closed"
  /\ UNCHANGED <<conversations, history_messages, full_response>>
  /\ UNCHANGED <<reqVars, auxVars, event_queue, workerVars>>

GenConversation ==
  /\ gen_pc = "conversation"
  /\ sent' = Append(sent,
       ConversationEvent(conversation_id,
         build_conversation_payload(history_messages, history_message_limit)))
  /\ last_yield' = "data"
  /\ gen_pc' = "done"
  /\ UNCHANGED <<conversation_obj, write_db, history_messages, full_response, appended, gen_exception>>
  /\ UNCHANGED <<dbVars, reqVars, auxVars, event_queue, workerVars>>

GenDone ==
  /\ gen_pc = "done"
  /\ sent' = Append(sent, DoneEvent)
  /\ last_yield' = "data"
  /\ gen_pc' = "closed"
  /\ UNCHANGED <<conversation_obj, write_db, history_messages, full_response, appended, gen_exception>>
  /\ UNCHANGED <<dbVars, reqVars, auxVars, event_queue, workerVars>>

\* ---------------------------------------------------------- environment
\* the conversation row disappears (ON DELETE CASCADE from the profile).
\* Between the endpoint and the persisting step nothing reads the store, so a
\* deletion at any earlier moment is the same as one right before persisting.
ConversationVanishes ==
  /\ gen_pc \in {"persist", "conversation", "done"}
  /\ conversations[conversation_id] # NoOwner
  /\ conversations' = [conversations EXCEPT ![conversation_id] = NoOwner]
  /\ messages' = [messages EXCEPT ![conversation_id] = <<>>]
  /\ UNCHANGED <<reqVars, auxVars, genVars, event_queue, workerVars>>

\* ----------------------------------------------------------------- Next
Worker ==
  \/ \E chunk \in Chunks : StreamChunk(chunk)
  \/ ToolInvoked
  \/ \E id \in 1..MaxToolCalls, exception \in BOOLEAN : ToolFinished(id, exception)
  \/ StreamComplete
  \/ ToolStreamRaises
  \/ \E kind \in ExceptionKinds : WorkerRaises(kind)
  \/ \E response \in Responses : RunReturns(response)
  \/ WorkerFinally

Generator ==
  \/ GenStart
  \/ GenSpawnWorker
  \/ GenGet
  \/ GenPersist
  \/ \E query_raises \in BOOLEAN : GenPersistFails(query_raises)
  \/ GenPersistRefreshFails
  \/ GenConversation
  \/ GenDone

Next ==
  \/ \E authenticated \in BOOLEAN, requested \in {NoConversationId} \cup ConvIds :
       agent_stream_endpoint(authenticated, requested)
  \/ Worker
  \/ Generator
  \/ GenHeartbeat
  \/ ConversationVanishes

Spec == Init /\ [][Next]_vars

\* the worker thread and the generator are scheduled fairly, and every
\* inference operation returns or raises
FairSpec == Spec /\ WF_vars(Worker) /\ WF_vars(Generator)

\* ------------------------------------------ a client that stops reading
ClientDisconnects_StopsWorker ==
  /\ \/ gen_pc \in {"spawn", "loop"}
     \/ gen_pc = "done" /\ sent[Len(sent)].type = "conversation"
  /\ gen_pc' = "cancelled"
  /\ worker_pc' = "exited"
  /\ UNCHANGED <<conversation_obj, write_db, history_messages, full_response, sent,
                 last_yield, appended, gen_exception>>
  /\ UNCHANGED <<emitted, response_chunks, tool_calls, next_call_id, runs, outcomes,
                 stream_pos>>
  /\ UNCHANGED <<dbVars, reqVars, auxVars, event_queue>>

\* The transport cancels the response when the client goes away: the
\* generator is abandoned where it is suspended, at the yield of start, in
\* the loop (waiting on the queue or at a yield) or at the yield of
\* conversation. CancelledError and GeneratorExit are not Exceptions, so the
\* except clause does not run; nothing tells the worker thread.
ClientDisconnects ==
  /\ \/ gen_pc \in {"spawn", "loop"}
     \/ gen_pc = "done" /\ sent[Len(sent)].type = "conversation"
  /\ gen_pc' = "cancelled"
  /\ UNCHANGED <<conversation_obj, write_db, history_messages, full_response, sent,
                 last_yield, appended, gen_exception>>
  /\ UNCHANGED <<dbVars, reqVars, auxVars, event_queue, workerVars>>

DisconnectNext ==
  \/ Next
  \/ ClientDisconnects

DisconnectSpec == Init /\ [][DisconnectNext]_vars

\* ------------------------------------- concurrent requests of one user
\* Both agent endpoints are coroutines on one event loop. A request is
\* suspended while it awaits authentication and, later, while inference
\* runs; between ensure_daily_limit and the commit of the user message there
\* is no await, so that stretch is one step.
Request(pc, cid) == [pc |-> pc, cid |-> cid]

quotaRest == <<reqVars, genVars, event_queue, workerVars, callbacks, call, ret>>

\* await get_authenticated_user(request, db) returns
QuotaAuthenticate(r) ==
  /\ requests[r].pc = "idle"
  /\ requests' = [requests EXCEPT ![r].pc = "authenticated"]
  /\ UNCHANGED <<dbVars, quotaRest>>

\* ensure_daily_limit(enforce=True), get_or_create_conversation_record and
\* record_agent_message(.., "user", ..)
QuotaAdmit(r, requested) ==
  /\ requests[r].pc = "authenticated"
  /\ requested = NoConversationId => \E c \in ConvIds : conversations[c] = NoOwner
  /\ LET limit == ensure_daily_limit(DailyLimit,
                                     _count_today_user_messages(Caller), TRUE)
         cid == get_or_create_conversation_id(requested)
     IN IF limit.raised
        THEN /\ requests' = [requests EXCEPT ![r].pc = "rejected"]
             /\ UNCHANGED dbVars
        ELSE IF ~get_or_create_conversation_found(Caller, requested)
        THEN /\ requests' = [requests EXCEPT ![r].pc = "not_found"]
             /\ UNCHANGED dbVars
        ELSE /\ requests' = [requests EXCEPT ![r] = Request("inference", cid)]
             /\ conversations' = [conversations EXCEPT ![cid] = Caller]
             /\ messages' = record_agent_message(cid, "user", Message)
  /\ UNCHANGED quotaRest

\* inference has ended: the assistant message is recorded, or nothing is
QuotaComplete(r, answered) ==
  /\ requests[r].pc = "inference"
  /\ requests' = [requests EXCEPT ![r].pc = "finished"]
  /\ IF answered /\ conversations[requests[r].cid] # NoOwner
     THEN /\ messages' = record_agent_message(requests[r].cid, "assistant",
                                              SubSeq(Text, 1, 1))
          /\ UNCHANGED conversations
     ELSE UNCHANGED dbVars
  /\ UNCHANGED quotaRest

QuotaInit ==
  /\ \E k \in 0..DailyLimit : StreamIdle(k)
  /\ requests = [r \in 1..MaxRequests |-> Request("idle", NoConversationId)]
  /\ callbacks = <<>>
  /\ call = NoCall
  /\ ret = NoReturn

QuotaNext ==
  \E r \in 1..MaxRequests :
    \/ QuotaAuthenticate(r)
    \/ \E requested \in {NoConversationId, 1, 2} : QuotaAdmit(r, requested)
    \/ \E answered \in BOOLEAN : QuotaComplete(r, answered)

QuotaSpec == QuotaInit /\ [][QuotaNext]_vars

\* ------------------------------------------ a tracker on its own
\* One ToolStreamingCallback receives callbacks in any order. The framework
\* gives every invocation a call id of its own (or none, and then the tracker
\* generates one); an end callback may carry any id.
Callback(cb, call_id, tool_name, exception) ==
  [cb |-> cb, call_id |-> call_id, tool_name |-> tool_name,
   exception |-> exception, emitted_after |-> Len(emitted'),
   table_after |-> tool_calls']

trackerRest == <<dbVars, reqVars, genVars, worker_pc, response_chunks, runs,
                 outcomes, stream_pos, call, ret, requests>>

CallbackStart(supplied, instance) ==
  /\ Len(callbacks) < MaxCallbacks
  /\ LET call_id == IF supplied THEN next_call_id + 1 ELSE NoCallId
     IN /\ on_tool_start(call_id, instance)
        /\ callbacks' =
             Append(callbacks, Callback("start", call_id, _tool_name(instance), FALSE))
  /\ next_call_id' = IF supplied THEN next_call_id + 1 ELSE next_call_id
  /\ UNCHANGED trackerRest

CallbackEnd(call_id, exception) ==
  /\ Len(callbacks) < MaxCallbacks
  /\ on_tool_end(call_id, exception)
  /\ callbacks' = Append(callbacks, Callback("end", call_id, "", exception))
  /\ UNCHANGED <<next_call_id, trackerRest>>

TrackerInit ==
  /\ StreamIdle(DailyLimit)
  /\ requests = NoRequests
  /\ callbacks = <<>>
  /\ call = NoCall
  /\ ret = NoReturn

TrackerNext ==
  \/ \E supplied \in BOOLEAN, instance \in Instances :
       CallbackStart(supplied, instance)
  \/ \E call_id \in (0..(next_call_id + 1)) \cup tool_calls, exception \in BOOLEAN :
       CallbackEnd(call_id, exception)

TrackerSpec == TrackerInit /\ [][TrackerNext]_vars

\* ------------------------------------------------ functions on their own
\* One call of a function with arguments drawn from bounded sets; the step
\* evaluates it.
K_api_key == <<"a", "p", "i", "_", "k", "e", "y">>
K_Cookie == <<"C", "o", "o", "k", "i", "e">>
K_q == <<"q">>
Keys == {K_api_key, K_Cookie, K_q, TRUNCATED}

LeafValues == {Str(Take(Text, 2)), Str(Take(Text, 5))}

Injective(f) == \A i, j \in DOMAIN f : f[i] = f[j] => i = j

Dicts ==
  UNION {{Dict([i \in 1..n |-> Entry(ks[i], vs[i])]) :
            ks \in {f \in [1..n -> Keys] : Injective(f)}, vs \in [1..n -> LeafValues]} :
         n \in 0..MaxEntries}

Lists ==
  UNION {{List([i \in 1..n |-> Entry(<<>>, vs[i])]) : vs \in [1..n -> LeafValues]} :
         n \in 0..MaxEntries}

Nested ==
  {Dict(<<Entry(k, inner)>>) : k \in {K_q, K_api_key}, inner \in Dicts \cup Lists}
  \cup {List(<<Entry(<<>>, inner)>>) : inner \in Dicts \cup Lists}

Scalars ==
  {NoneValue, Number, Bytes(<<"x", "y">>), Object(Take(Text, 5)),
   Model(<<Entry(K_api_key, Str(Take(Text, 2)))>>)}

Strings == {Str(Take(Text, n)) : n \in 0..Len(Text)}

SanitizeCall(value, max_depth, max_items, max_str_len) ==
  [fn |-> "sanitize_tool_payload", value |-> value, max_depth |-> max_depth,
   max_items |-> max_items, max_str_len |-> max_str_len]

SanitizeCalls ==
  {SanitizeCall(v, d, n, 4) :
     v \in Dicts \cup Lists \cup Nested \cup Scalars, d \in 0..3, n \in 0..MaxEntries}
  \cup {SanitizeCall(v, 1, MaxEntries, m) : v \in Strings, m \in 0..MaxStrLen}

Row(t, role) == [role |-> role, content |-> <<Digit[t + 1]>>, created_at |-> t]

Conversations ==
  UNION {{[t \in 1..n |-> Row(t, roles[t])] : roles \in [1..n -> {"user", "assistant"}]} :
         n \in 0..MaxRows}

HistoryCalls ==
  {[fn |-> fn, rows |-> rows, history_limit |-> n] :
     fn \in {"fetch_recent_messages", "serialize_history"},
     rows \in Conversations, n \in (-1)..(MaxRows + 1)}

LimitCalls ==
  {[fn |-> "ensure_daily_limit", limit_value |-> l, used_today |-> u, enforce |-> e] :
     l \in 0..MaxQuota, u \in 0..(MaxQuota + 1), e \in BOOLEAN}

ParamNames == {"user_id", "issue_description", "query"}

ArgValues == {Caller, OtherUser, "x"}

Tools ==
  {RawTool("alert_admin", <<"user_id", "issue_description">>),
   RawTool("lookup", <<"query", "user_id">>),
   RawTool("search", <<"query">>)}

WrapperCalls ==
  {[fn |-> "build_tool_wrappers", user_id |-> Caller, tool |-> tool,
    args |-> args, kwargs |-> kwargs] :
     tool \in Tools,
     args \in UNION {[1..n -> ArgValues] : n \in 0..MaxArgs},
     kwargs \in [ParamNames -> ArgValues \cup {Absent}]}

Returned(value) == [returned |-> TRUE, value |-> value]

callRest == <<dbVars, reqVars, genVars, event_queue, workerVars, callbacks, call,
              requests>>

Return_sanitize_tool_payload ==
  /\ call.fn = "sanitize_tool_payload"
  /\ ~ret.returned
  /\ ret' = Returned(sanitize_tool_payload(call.value, call.max_depth,
                                           call.max_items, call.max_str_len))
  /\ UNCHANGED callRest

Return_fetch_recent_messages ==
  /\ call.fn = "fetch_recent_messages"
  /\ ~ret.returned
  /\ ret' = Returned(fetch_recent_messages(call.rows, call.history_limit))
  /\ UNCHANGED callRest

Return_serialize_history ==
  /\ call.fn = "serialize_history"
  /\ ~ret.returned
  /\ ret' = Returned(serialize_history(call.rows, call.history_limit))
  /\ UNCHANGED callRest

Return_ensure_daily_limit ==
  /\ call.fn = "ensure_daily_limit"
  /\ ~ret.returned
  /\ ret' = Returned(ensure_daily_limit(call.limit_value, call.used_today,
                                        call.enforce))
  /\ UNCHANGED callRest

\* build_tool_wrappers wraps the tool; the agent then calls what it was given
Return_build_tool_wrappers ==
  /\ call.fn = "build_tool_wrappers"
  /\ ~ret.returned
  /\ LET wrapper == _wrap_tool(call.tool, call.user_id)
     IN ret' = Returned([wrapper |-> wrapper,
                         outcome |-> Invoke(wrapper, call.args, call.kwargs)])
  /\ UNCHANGED callRest

CallInit ==
  /\ StreamIdle(DailyLimit)
  /\ requests = NoRequests
  /\ callbacks = <<>>
  /\ \/ call \in SanitizeCalls
     \/ call \in HistoryCalls
     \/ call \in LimitCalls
     \/ call \in WrapperCalls
  /\ ret = NoReturn

CallNext ==
  \/ Return_sanitize_tool_payload
  \/ Return_fetch_recent_messages
  \/ Return_serialize_history
  \/ Return_ensure_daily_limit
  \/ Return_build_tool_wrappers

CallSpec == CallInit /\ [][CallNext]_vars

TypeOK ==
  /\ gen_pc \in {"idle", "start", "spawn", "loop", "persist", "conversation", "cancelled",
                 "done", "closed"}
  /\ worker_pc \in {"not_started", "stream_tools", "stream_no_tools", "run",
                    "finally", "exited"}
  /\ http_status \in {0, HTTP_200_OK, HTTP_401_UNAUTHORIZED,
                      HTTP_402_PAYMENT_REQUIRED, HTTP_404_NOT_FOUND}
  /\ Len(response_chunks) <= MaxChunks
  /\ last_yield \in {"none", "data", "heartbeat"}


\* ------------------------------------------------- reading event sequences
Positions(events, types) == {i \in DOMAIN events : events[i].type \in types}

Count(events, types) == Cardinality(Positions(events, types))

Last(events) == events[Len(events)]

TerminalTypes == {"done", "error"}

ForwardedTypes == {"token", "warning", "tool_start", "tool_end", "tool_error"}

IsForwarded(event) == event.type \in ForwardedTypes

IsToken(event) == event.type = "token"

IsPrefix(short, long) ==
  /\ Len(short) <= Len(long)
  /\ short = SubSeq(long, 1, Len(short))

StreamClosed == gen_pc = "closed"

LeftLoop == gen_pc \in {"persist", "conversation", "done", "closed"}

\* the events the worker enqueued before its first worker-error/worker-done
BeforeTerminalSignal(events) ==
  LET stops == Positions(events, {"_internal_worker_error", "_internal_worker_done"})
  IN IF stops = {} THEN events
     ELSE SubSeq(events, 1, (CHOOSE i \in stops : \A j \in stops : i <= j) - 1)

\* ------------------------------------------------------------------ claims

\* C1: in the data events of one streaming request at most one done/error
\* occurs and nothing follows it; a finished stream holds exactly one, as its
\* last event, so done and error never occur together.
C1_TerminalUnique ==
  /\ Count(sent, TerminalTypes) <= 1
  /\ \A i \in Positions(sent, TerminalTypes) : i = Len(sent)
  /\ StreamClosed => Count(sent, TerminalTypes) = 1

C1_Witness ==
  /\ StreamClosed
  /\ Last(sent).type = "error"
  /\ Count(sent, {"token"}) >= 1
  /\ worker_pc = "exited"

\* C2: the start event is sent exactly once per streaming request, as the
\* first data event; no other data event precedes it.
C2_StartFirst ==
  /\ \A i \in DOMAIN sent : (sent[i].type = "start") <=> (i = 1)
  /\ gen_pc \notin {"idle", "start"} => Count(sent, {"start"}) = 1

C2_Witness ==
  /\ Len(sent) >= 2
  /\ sent[1].type = "start"
  /\ sent[2].type = "token"

\* C3: when every inference operation returns or raises and worker and
\* generator are scheduled fairly, a stream that has sent start eventually
\* sends done or error.
C3_EventuallyTerminal ==
  (Count(sent, {"start"}) = 1) ~> (Count(sent, TerminalTypes) = 1)

C3_Witness ==
  /\ Count(sent, TerminalTypes) = 1
  /\ Len(runs) = 3
  /\ Len(outcomes) = 3

\* C4: the client receives the user-visible events in the order the worker
\* enqueued them, each once; what was forwarded so far is exactly what was
\* taken off the queue, and once the loop is left every user-visible event
\* enqueued before the worker's terminal signal has been delivered.
C4_QueueOrder ==
  /\ SelectSeq(sent, IsForwarded) =
       SelectSeq(SubSeq(emitted, 1, Len(emitted) - Len(event_queue)), IsForwarded)
  /\ LeftLoop =>
       SelectSeq(sent, IsForwarded) =
         SelectSeq(BeforeTerminalSignal(emitted), IsForwarded)

C4_Witness ==
  /\ LeftLoop
  /\ Count(sent, {"token"}) >= 2
  /\ Count(sent, {"warning"}) = 1
  /\ Count(sent, {"tool_start"}) = 1
  /\ \E i, j \in Positions(sent, {"token"}) : sent[i].content # sent[j].content


\* --------------------------------------------------- reading the request
Accepted == http_status = HTTP_200_OK

ToolAttemptRaised == Len(outcomes) >= 1 /\ outcomes[1] = "raised"

ToolAttemptReturned == Len(outcomes) >= 1 /\ outcomes[1] = "returned"

RetryCompleted == ToolAttemptRaised /\ Len(outcomes) >= 2 /\ outcomes[2] = "returned"

RunRaised == outcomes # <<>> /\ runs[Len(outcomes)] = "run" /\ Last(outcomes) = "raised"

Contents(events) == [i \in DOMAIN events |-> events[i].content]

TokenContents(events) == Contents(SelectSeq(events, IsToken))

\* the events of a sequence that follow its first warning
AfterWarning(events) ==
  LET w == Positions(events, {"warning"})
  IN IF w = {} THEN <<>>
     ELSE SubSeq(events, (CHOOSE i \in w : \A j \in w : i <= j) + 1, Len(events))

BeforeWarning(events) ==
  LET w == Positions(events, {"warning"})
  IN IF w = {} THEN events
     ELSE SubSeq(events, 1, (CHOOSE i \in w : \A j \in w : i <= j) - 1)

\* the chunks the tools-disabled retry yielded
RetryChunks ==
  SubSeq(response_chunks,
         Len(SelectSeq(BeforeWarning(emitted), IsToken)) + 1,
         Len(response_chunks))

NewlyCreated(c) == c \in ConvIds /\ InitialOwner(c) = NoOwner

AssistantAppended == appended = <<"user", "assistant">>

Exists(c) == c \in ConvIds /\ conversations[c] # NoOwner

WarnsAndRetries ==
  ToolAttemptRaised =>
    /\ Count(emitted, {"warning"}) = 1
    /\ \A i \in Positions(emitted, {"warning"}) : emitted[i].code = "tool_fallback"
    /\ Len(runs) >= 2
    /\ runs[2] = "stream_no_tools"

\* C5 as stated: after a raising tool-enabled attempt one tool_fallback
\* warning is emitted and streaming is retried without tools; when the retry
\* yields tokens and completes, those tokens follow the warning and the
\* stream ends with done, without error.
C5_RetryEndsWithDone ==
  /\ WarnsAndRetries
  /\ (StreamClosed /\ RetryCompleted /\ RetryChunks # <<>>) =>
       /\ IsPrefix(RetryChunks, TokenContents(AfterWarning(sent)))
       /\ Last(sent).type = "done"
       /\ Count(sent, {"error"}) = 0

\* C5 amended: as above, but the stream ends with error instead of done when
\* every streamed chunk was empty and the blocking run that follows raises,
\* or when persisting the assistant message raises.
C5_RetryEndsWithDoneUnlessLaterFailure ==
  /\ WarnsAndRetries
  /\ (StreamClosed /\ RetryCompleted /\ RetryChunks # <<>>) =>
       /\ IsPrefix(RetryChunks, TokenContents(AfterWarning(sent)))
       /\ IF gen_exception \/ RunRaised
          THEN Last(sent).type = "error" /\ Count(sent, {"done"}) = 0
          ELSE Last(sent).type = "done" /\ Count(sent, {"error"}) = 0
       /\ RunRaised => ~Truthy(Concat(response_chunks))

C5_Witness ==
  /\ StreamClosed
  /\ RetryCompleted
  /\ Len(RetryChunks) >= 1
  /\ Truthy(Concat(RetryChunks))
  /\ Count(BeforeWarning(sent), {"token"}) >= 1
  /\ Last(sent).type = "done"

ZeroTokenStream == ToolAttemptReturned /\ response_chunks = <<>>

\* C6 as stated: a streaming attempt that returns without a token leads to no
\* warning, one blocking run, exactly one token with the whole fallback
\* response, then a conversation event, then done.
C6_FallbackThenConversationDone ==
  ZeroTokenStream =>
    /\ Count(emitted, {"warning"}) = 0
    /\ runs = <<"stream_tools", "run">>
    /\ StreamClosed =>
         /\ Count(sent, {"token"}) = 1
         /\ TokenContents(sent) = <<full_response>>
         /\ Len(sent) >= 4
         /\ sent[Len(sent) - 1].type = "conversation"
         /\ Last(sent).type = "done"

\* C6 amended: no warning and one blocking run; if the run returns, exactly
\* one token with the whole response is sent, followed by conversation and
\* done when the response is non-empty, the record still exists and
\* persisting succeeds, by done alone when the response is empty or the
\* record vanished, by error when persisting raises; if the run raises, no
\* token is sent and the stream ends with error.
C6_FallbackOutcomes ==
  ZeroTokenStream =>
    /\ Count(emitted, {"warning"}) = 0
    /\ runs = <<"stream_tools", "run">>
    /\ StreamClosed =>
         IF RunRaised
         THEN /\ Count(sent, {"token"}) = 0
              /\ Last(sent).type = "error"
         ELSE /\ Count(sent, {"token"}) = 1
              /\ TokenContents(sent) = <<full_response>>
              /\ IF gen_exception
                 THEN /\ Last(sent).type = "error"
                      /\ Count(sent, {"conversation", "done"}) = 0
                 ELSE /\ Last(sent).type = "done"
                      /\ Count(sent, {"error"}) = 0
                      /\ (sent[Len(sent) - 1].type = "conversation") <=> AssistantAppended
                      /\ AssistantAppended => Truthy(full_response)
                      /\ ~AssistantAppended =>
                           ~Truthy(full_response) \/ ~Exists(conversation_id)

C6_Witness ==
  /\ ZeroTokenStream
  /\ StreamClosed
  /\ Len(sent) = 4
  /\ sent[2].type = "token"
  /\ sent[2].content = SubSeq(Text, 1, 2)
  /\ sent[3].type = "conversation"
  /\ sent[4].type = "done"

\* C7: every done event is preceded by at least one token event.
C7_TokenBeforeDone ==
  \A i \in Positions(sent, {"done"}) : \E j \in Positions(sent, {"token"}) : j < i

C7_Witness ==
  /\ Count(sent, {"done"}) = 1
  /\ TokenContents(sent) = << <<>> >>

\* C8: whenever the stream persisted an assistant message, its stored content
\* is the concatenation, in order, of the contents of all token events sent.
C8_StoredEqualsTokens ==
  (AssistantAppended /\ Exists(conversation_id)) =>
    /\ messages[conversation_id] # <<>>
    /\ Last(messages[conversation_id]) =
         Msg("assistant", Concat(TokenContents(sent)))

C8_Witness ==
  /\ AssistantAppended
  /\ Exists(conversation_id)
  /\ RetryCompleted
  /\ Count(BeforeWarning(sent), {"token"}) >= 1
  /\ Truthy(Concat(TokenContents(BeforeWarning(sent))))
  /\ Truthy(Concat(RetryChunks))

\* C9: the user message is recorded before any inference operation starts;
\* the assistant message is recorded only after every inference operation of
\* the request has ended, and never before the user message.
C9_MessageOrder ==
  /\ appended \in {<<>>, <<"user">>, <<"user", "assistant">>}
  /\ runs # <<>> => appended # <<>> /\ appended[1] = "user"
  /\ AssistantAppended =>
       /\ Len(outcomes) = Len(runs)
       /\ worker_pc \in {"finally", "exited"}
  /\ (AssistantAppended /\ Exists(conversation_id)) =>
       LET rows == messages[conversation_id]
       IN /\ Len(rows) >= 2
          /\ rows[Len(rows) - 1] = Msg("user", Message)
          /\ rows[Len(rows)].role = "assistant"

C9_Witness ==
  /\ AssistantAppended
  /\ Exists(conversation_id)
  /\ Len(runs) = 3
  /\ requested_id # NoConversationId

StartCarriesNewConversation ==
  (Accepted /\ requested_id = NoConversationId) =>
    /\ NewlyCreated(conversation_id)
    /\ sent # <<>> => sent[1].id = conversation_id

\* C10 as stated: a request without conversation id gets a newly created
\* conversation, named by start; whenever done is reached that conversation
\* holds exactly the user message followed by the assistant message.
C10_NewConversationTwoMessages ==
  /\ StartCarriesNewConversation
  /\ (Accepted /\ requested_id = NoConversationId /\ Count(sent, {"done"}) = 1) =>
       /\ Exists(conversation_id)
       /\ Len(messages[conversation_id]) = 2
       /\ messages[conversation_id][1] = Msg("user", Message)
       /\ messages[conversation_id][2].role = "assistant"

\* C10 amended: as above when done follows a conversation event and the
\* record was not deleted since; when done is reached without a conversation
\* event (empty final response, or record gone at persisting time) the
\* conversation holds only the user message, or no longer exists.
C10_NewConversationMessages ==
  /\ StartCarriesNewConversation
  /\ (Accepted /\ requested_id = NoConversationId /\ Count(sent, {"done"}) = 1
        /\ Exists(conversation_id)) =>
       IF Count(sent, {"conversation"}) = 1
       THEN /\ Len(messages[conversation_id]) = 2
            /\ messages[conversation_id][1] = Msg("user", Message)
            /\ messages[conversation_id][2] = Msg("assistant", full_response)
       ELSE /\ messages[conversation_id] = <<Msg("user", Message)>>
            /\ ~Truthy(full_response)

C10_Witness ==
  /\ Accepted
  /\ requested_id = NoConversationId
  /\ Count(sent, {"done"}) = 1
  /\ Count(sent, {"conversation"}) = 1
  /\ Exists(conversation_id)
  /\ Len(messages[conversation_id]) = 2

\* the conversation event: at most one, only once the assistant message was
\* recorded, and done is the event right after it
ConversationBeforeDone ==
  /\ Count(sent, {"conversation"}) <= 1
  /\ \A i \in Positions(sent, {"conversation"}) :
       /\ AssistantAppended
       /\ i < Len(sent) => sent[i + 1].type = "done"
       /\ StreamClosed => i = Len(sent) - 1

NoAssistantRecorded == \A i \in DOMAIN appended : appended[i] # "assistant"

\* nothing is persisted and the stream ends with done all the same
SkipsPersisting ==
  /\ NoAssistantRecorded
  /\ Count(sent, {"conversation", "error"}) = 0
  /\ StreamClosed => Last(sent) = DoneEvent

EmptyFinalResponse == LeftLoop /\ full_response = <<>>

\* the persisting step ran, appended nothing, and the record is absent: it was
\* absent when the step ran (a row only disappears, and not once the stream
\* is closed)
RecordGoneAtPersist ==
  /\ write_db = "closed"
  /\ conversation_obj # "found"
  /\ ~Exists(conversation_id)

\* C11 as stated: the conversation event is sent at most once, only after the
\* assistant message was persisted, directly before done; when the final
\* response is empty or the conversation record no longer exists at
\* persistence time, no assistant message is appended, no conversation event
\* is sent and the stream ends with done, not error.
C11_ConversationOnceElseDone ==
  /\ ConversationBeforeDone
  /\ EmptyFinalResponse => SkipsPersisting
  /\ RecordGoneAtPersist => SkipsPersisting

\* C11: the conversation event is sent at most once, only after the assistant
\* message was persisted, directly before done; when the final response is
\* empty or the persisting step's lookup finds no conversation record, no
\* assistant message is appended, no conversation event is sent and the stream
\* ends with done; when the lookup itself raises on a vanished record, nothing
\* is appended either and the stream ends with error and no done.
C11_ConversationOnceElseDoneUnlessLookupRaises ==
  /\ ConversationBeforeDone
  /\ EmptyFinalResponse => SkipsPersisting
  /\ conversation_obj = "none" => SkipsPersisting
  /\ (RecordGoneAtPersist /\ conversation_obj = "unset") =>
       /\ NoAssistantRecorded
       /\ Count(sent, {"conversation", "done"}) = 0
       /\ Last(sent) = ErrorEvent

C11_Witness ==
  /\ StreamClosed
  /\ conversation_obj = "none"
  /\ Truthy(full_response)
  /\ Last(sent) = DoneEvent
  /\ Count(sent, {"token"}) >= 1

\* what the store held before the request, for some number of earlier
\* exchanges
StoreUntouched ==
  /\ conversations = [c \in ConvIds |-> InitialOwner(c)]
  /\ \E k \in {DailyLimit - 1, DailyLimit} :
       messages = [c \in ConvIds |->
                     IF c = 1 THEN Exchanges(k) ELSE IF c = 2 THEN Exchange ELSE <<>>]

Rejected ==
  http_status \in {HTTP_401_UNAUTHORIZED, HTTP_402_PAYMENT_REQUIRED,
                   HTTP_404_NOT_FOUND}

\* C12: a streaming request that fails authentication, exceeds the enforced
\* daily quota or names a conversation the caller does not own is rejected
\* (only an authenticated caller within quota, naming no conversation or one
\* of its own, is accepted); a rejected request sends no event, spawns no
\* worker, creates no conversation and appends no message.
C12_RejectedBeforeStream ==
  /\ Accepted =>
       /\ auth_user = Caller
       /\ _count_today_user_messages(Caller) <= DailyLimit
       /\ requested_id = NoConversationId \/ InitialOwner(requested_id) = Caller
  /\ http_status # 0 => Accepted \/ Rejected
  /\ Rejected =>
       /\ sent = <<>>
       /\ gen_pc = "idle"
       /\ worker_pc = "not_started"
       /\ emitted = <<>>
       /\ appended = <<>>
       /\ conversation_id = NoConversationId
       /\ StoreUntouched

C12_Witness ==
  /\ http_status = HTTP_404_NOT_FOUND
  /\ auth_user = Caller
  /\ requested_id = 2
  /\ _count_today_user_messages(Caller) < DailyLimit
  /\ sent = <<>>

WorkerReportedError == Count(emitted, {"_internal_worker_error"}) >= 1

\* C13: once the stream has started, when the worker reports an error or the
\* generator itself raises, the client receives an error event whose message
\* is one fixed text, whatever the exception; no done and no conversation
\* event is sent in that request.
C13_FixedErrorNoDone ==
  /\ \A i \in Positions(sent, {"error"}) : sent[i] = ErrorEvent
  /\ (WorkerReportedError \/ gen_exception) =>
       Count(sent, {"done", "conversation"}) = 0
  /\ (StreamClosed /\ (WorkerReportedError \/ gen_exception)) =>
       /\ Count(sent, {"error"}) = 1
       /\ Last(sent) = ErrorEvent
       /\ sent[1].type = "start"

C13_Witness ==
  /\ StreamClosed
  /\ \E i \in DOMAIN emitted : emitted[i] = InternalWorkerError("TimeoutError")
  /\ Last(sent) = ErrorEvent
  /\ Count(sent, {"warning"}) = 1

\* ------------------------------------------------ reading the callback log
EndTypes == {"tool_end", "tool_error"}

EmittedBefore(n) == IF n = 1 THEN 0 ELSE callbacks[n - 1].emitted_after

TableBefore(n) == IF n = 1 THEN {} ELSE callbacks[n - 1].table_after

EmitsNothing(n) == callbacks[n].emitted_after = EmittedBefore(n)

\* the n-th callback belongs to an internal tool: a start whose resolved name
\* is internal, or the end that carries the call id of such a start
ForInternalTool(n) ==
  \/ /\ callbacks[n].cb = "start"
     /\ callbacks[n].tool_name \in INTERNAL_TOOLS
  \/ /\ callbacks[n].cb = "end"
     /\ \E m \in 1..(n - 1) :
          /\ callbacks[m].cb = "start"
          /\ callbacks[m].call_id = callbacks[n].call_id
          /\ callbacks[m].tool_name \in INTERNAL_TOOLS

C15_InternalToolsSilent ==
  \A n \in DOMAIN callbacks :
    ForInternalTool(n) =>
      /\ EmitsNothing(n)
      /\ callbacks[n].table_after = TableBefore(n)

C15_Witness ==
  /\ Len(callbacks) = 3
  /\ callbacks[1].cb = "start" /\ callbacks[1].tool_name = "search"
  /\ callbacks[2].cb = "start" /\ callbacks[2].tool_name = "Finish"
  /\ callbacks[2].call_id = 2
  /\ callbacks[3].cb = "end" /\ callbacks[3].call_id = 2
  /\ Len(emitted) = 1
  /\ tool_calls = {1}

\* -------------------------------------------------- reading a function call
Sanitized == call.fn = "sanitize_tool_payload" /\ ret.returned

\* the key's lowercase form contains one of the secret words
SecretLike(key) == \E part \in secret_substrings : Contains(lower(key), part)

HasKey(d, key) == \E i \in DOMAIN d.items : d.items[i].key = key

Lookup(d, key) == d.items[CHOOSE i \in DOMAIN d.items : d.items[i].key = key].val

Reached(in, out, depth) == [in |-> in, out |-> out, depth |-> depth]

\* the mappings the sanitizer reaches with depth budget left, each with its
\* output and the budget it is sanitized under: the payload itself, and the
\* mappings held by its entries within the item cap
ReachedMappings ==
  LET top == call.value
      below ==
        IF top.kind \in {"dict", "list"} /\ call.max_depth >= 2
        THEN {Reached(top.items[i].val,
                      IF top.kind = "dict"
                      THEN Lookup(ret.value, top.items[i].key)
                      ELSE ret.value.items[i].val,
                      call.max_depth - 1) :
                i \in {j \in DOMAIN top.items :
                         /\ j <= call.max_items
                         /\ ~SecretLike(top.items[j].key)}}
        ELSE {}
  IN {m \in {Reached(top, ret.value, call.max_depth)} \cup below :
        m.in.kind = "dict" /\ m.depth >= 1}

SanitizedUnder(v, depth) ==
  sanitize_tool_payload(v, depth - 1, call.max_items, call.max_str_len)

\* every key of the mapping is in the output: [REDACTED] under a secret-like
\* key, the sanitized value under any other
RedactsEveryKey(m) ==
  \A i \in DOMAIN m.in.items :
    LET k == m.in.items[i].key
    IN /\ HasKey(m.out, k)
       /\ Lookup(m.out, k) = IF SecretLike(k) THEN Str(REDACTED)
                             ELSE SanitizedUnder(m.in.items[i].val, m.depth)

\* the same for the entries within the item cap; later entries are dropped,
\* and a mapping over the cap holds the truncation marker under <truncated>
RedactsWithinCap(m) ==
  LET over == Len(m.in.items) > call.max_items
      marker == MoreItems(Len(m.in.items) - call.max_items)
  IN /\ \A i \in DOMAIN m.in.items :
          LET k == m.in.items[i].key
          IN IF over /\ k = TRUNCATED
             THEN HasKey(m.out, k) /\ Lookup(m.out, k) = marker
             ELSE IF i <= call.max_items
             THEN /\ HasKey(m.out, k)
                  /\ Lookup(m.out, k) =
                       IF SecretLike(k) THEN Str(REDACTED)
                       ELSE SanitizedUnder(m.in.items[i].val, m.depth)
             ELSE ~HasKey(m.out, k)
     /\ \A j \in DOMAIN m.out.items :
          SecretLike(m.out.items[j].key)
            => m.out.items[j].val = Str(REDACTED)

\* C16 as stated: in every mapping the sanitizer reaches while depth budget
\* remains, each key whose lowercase form contains key, token, secret,
\* authorization or cookie is in the output with the value [REDACTED], at
\* every nesting level, and every other key keeps its recursively sanitized
\* value.
C16_SecretKeysRedacted ==
  Sanitized => \A m \in ReachedMappings : RedactsEveryKey(m)

\* C16: in every mapping the sanitizer reaches while depth budget remains,
\* each secret-like key among the first max_items entries is in the output
\* with the value [REDACTED], at every nesting level, and no secret-like key
\* of the output holds anything else; every other key among the first
\* max_items entries keeps its recursively sanitized value, except that in a
\* mapping over the cap the key <truncated> holds the truncation marker;
\* entries after the cap are dropped.
C16_SecretKeysRedactedWithinCap ==
  Sanitized => \A m \in ReachedMappings : RedactsWithinCap(m)

C16_Witness ==
  /\ Sanitized
  /\ call.max_depth = 2
  /\ call.max_items = 1
  /\ call.value.kind = "list"
  /\ Len(call.value.items) = 1
  /\ call.value.items[1].val =
       Dict(<<Entry(K_Cookie, Str(Take(Text, 2))), Entry(K_api_key, Str(Take(Text, 2)))>>)
  /\ ret.value.items[1].val =
       Dict(<<Entry(K_Cookie, Str(REDACTED)), Entry(TRUNCATED, MoreItems(1))>>)

\* C17 as stated: for every string s and every configured maximum length, a
\* string longer than max_len is sanitized to a string of length at most
\* max_len.
C17_TruncatedWithinMaxLen ==
  (/\ Sanitized
   /\ call.value.kind = "str"
   /\ call.max_depth >= 1
   /\ Len(call.value.str) > call.max_str_len)
    => /\ ret.value.kind = "str"
       /\ Len(ret.value.str) <= call.max_str_len

\* the entry the sanitizer makes of the i-th entry of a collection
SanitizedEntry(entry) ==
  Entry(entry.key,
        IF call.value.kind = "dict" /\ SecretLike(entry.key)
        THEN Str(REDACTED)
        ELSE SanitizedUnder(entry.val, call.max_depth))

TruncationMarker ==
  LET more == Len(call.value.items) - call.max_items
  IN IF call.value.kind = "dict" THEN Entry(TRUNCATED, MoreItems(more))
     ELSE Entry(<<>>, TruncatedItems(more))

\* C18 as stated: a mapping or sequence with more entries than the item cap
\* is sanitized to exactly cap + 1 entries: the first cap entries, sanitized,
\* followed by one truncation marker entry.
C18_CapPlusMarker ==
  (/\ Sanitized
   /\ call.value.kind \in {"dict", "list"}
   /\ call.max_depth >= 1
   /\ Len(call.value.items) > call.max_items)
    => /\ Len(ret.value.items) = call.max_items + 1
       /\ \A i \in 1..call.max_items :
            ret.value.items[i] = SanitizedEntry(call.value.items[i])
       /\ ret.value.items[call.max_items + 1] = TruncationMarker

\* C19: fetch_recent_messages and serialize_history with limit N return at
\* most N messages, the N most recent ones, oldest first; for N <= 0 both
\* return the empty list.
C19_MostRecentAscending ==
  (call.fn \in {"fetch_recent_messages", "serialize_history"} /\ ret.returned) =>
    LET rows == call.rows
        n == call.history_limit
        kept == IF n <= 0 THEN 0 ELSE IF n < Len(rows) THEN n ELSE Len(rows)
    IN /\ Len(ret.value) = kept
       /\ \A i \in 1..kept :
            LET row == rows[Len(rows) - kept + i]
            IN IF call.fn = "fetch_recent_messages"
               THEN ret.value[i] = row
               ELSE ret.value[i] = [role |-> row.role, content |-> row.content]

C19_Witness ==
  /\ call.fn = "fetch_recent_messages"
  /\ ret.returned
  /\ Len(call.rows) = 3
  /\ call.history_limit = 2
  /\ Len(ret.value) = 2
  /\ ret.value[1].created_at = 2
  /\ ret.value[2].created_at = 3

\* C20: ensure_daily_limit returns a status with remaining = max(limit -
\* used, 0) that is within limit exactly when used < limit; with used >= limit
\* it raises a 402 whose payload carries limit, used and remaining = 0 if and
\* only if enforce is true, and otherwise returns the status without raising.
C20_DailyLimitStatus ==
  (call.fn = "ensure_daily_limit" /\ ret.returned) =>
    LET limit == call.limit_value
        used == call.used_today
        out == ret.value
    IN /\ out.raised <=> (used >= limit /\ call.enforce)
       /\ out.raised =>
            /\ out.status_code = 402
            /\ out.detail.limit = limit
            /\ out.detail.used = used
            /\ out.detail.remaining = 0
       /\ ~out.raised =>
            /\ out.status.limit_value = limit
            /\ out.status.used_today = used
            /\ out.status.remaining = (IF limit - used > 0 THEN limit - used ELSE 0)
            /\ LimitStatus_is_within_limit(out.status) <=> used < limit

C20_Witness ==
  /\ call.fn = "ensure_daily_limit"
  /\ ret.returned
  /\ ~call.enforce
  /\ call.used_today > call.limit_value
  /\ ~ret.value.raised
  /\ ret.value.status.remaining = 0

Wrapped == call.fn = "build_tool_wrappers" /\ ret.returned

DeclaresUserId == "user_id" \in Names(call.tool.params)

\* the invocation names every parameter of the wrapper's signature by keyword
\* and perhaps a user_id as well, and nothing else
KeywordInvocation ==
  /\ call.args = <<>>
  /\ \A name \in ParamNames \ {"user_id"} :
       call.kwargs[name] # Absent <=> name \in Names(call.tool.params)

UserIdOf(outcome) ==
  outcome.bound[CHOOSE i \in DOMAIN call.tool.params : call.tool.params[i] = "user_id"]

\* C21: a tool that declares user_id only ever runs, through its wrapper, with
\* user_id equal to the authenticated caller's id, also when the invocation
\* supplies another user_id; the wrapper's signature does not list user_id; a
\* tool without a user_id parameter is returned unchanged.
C21_UserIdInjected ==
  Wrapped =>
    IF DeclaresUserId
    THEN /\ "user_id" \notin Names(ret.value.wrapper.signature)
         /\ Names(ret.value.wrapper.signature) = Names(call.tool.params) \ {"user_id"}
         /\ ret.value.wrapper.name = call.tool.name
         /\ ~ret.value.outcome.raised => UserIdOf(ret.value.outcome) = call.user_id
         /\ KeywordInvocation =>
              /\ ~ret.value.outcome.raised
              /\ UserIdOf(ret.value.outcome) = call.user_id
    ELSE ret.value.wrapper = call.tool

C21_Witness ==
  /\ Wrapped
  /\ call.tool.name = "alert_admin"
  /\ KeywordInvocation
  /\ call.kwargs["user_id"] = OtherUser
  /\ ~ret.value.outcome.raised
  /\ ret.value.outcome.bound = <<Caller, "x">>

\* ------------------------------------------------ reading the conversations
NamesConversation == requested_id # NoConversationId

OwnedByAnother(c) == InitialOwner(c) = OtherUser

\* C22: get_or_create_conversation_record returns an existing conversation
\* only when the caller owns it; a supplied id that does not exist or belongs
\* to another user fails with 404 and creates nothing; no request appends a
\* message to a conversation of another user.
C22_OnlyOwnConversation ==
  /\ Accepted /\ NamesConversation =>
       /\ InitialOwner(requested_id) = Caller
       /\ conversation_id = requested_id
  /\ Accepted /\ ~NamesConversation => InitialOwner(conversation_id) = NoOwner
  /\ /\ auth_user = Caller
     /\ http_status \notin {0, HTTP_402_PAYMENT_REQUIRED}
     /\ NamesConversation
     /\ InitialOwner(requested_id) # Caller
     => http_status = HTTP_404_NOT_FOUND /\ StoreUntouched
  /\ \A c \in ConvIds :
       OwnedByAnother(c) => conversations[c] = OtherUser /\ messages[c] = Exchange

C22_Witness ==
  /\ http_status = HTTP_404_NOT_FOUND
  /\ auth_user = Caller
  /\ requested_id = 3
  /\ conversations[3] = NoOwner
  /\ StoreUntouched

\* --------------------------------------------------- reading the phases
RunOrders ==
  {<<>>, <<"stream_tools">>, <<"stream_tools", "stream_no_tools">>,
   <<"stream_tools", "run">>, <<"stream_tools", "stream_no_tools", "run">>}

Ran(kind) == \E i \in DOMAIN runs : runs[i] = kind

Persisting == gen_pc \in {"persist", "conversation"} \/ write_db # "unopened"

\* C23: the phases of a request come in the order Init, tool-enabled attempt,
\* optional tools-disabled attempt, optional non-streaming fallback,
\* Persisting, Terminal; each kind of attempt runs at most once; the
\* tools-disabled attempt only after the tool-enabled attempt raised; the
\* fallback only after an attempt that returned without text; Persisting never
\* after a worker error.
C23_PhaseOrder ==
  /\ runs \in RunOrders
  /\ Len(outcomes) \in {Len(runs) - 1, Len(runs)} \cap Nat
  /\ runs # <<>> =>
       /\ Accepted
       /\ db = "closed"
       /\ sent # <<>> /\ sent[1].type = "start"
  /\ Ran("stream_no_tools") => ToolAttemptRaised
  /\ Ran("run") =>
       /\ ~Truthy(Concat(response_chunks))
       /\ outcomes[Len(runs) - 1] = "returned"
  /\ Persisting =>
       /\ worker_pc = "exited"
       /\ Len(outcomes) = Len(runs)
       /\ Last(outcomes) = "returned"
       /\ ~WorkerReportedError
  /\ StreamClosed =>
       /\ Last(sent).type \in TerminalTypes
       /\ Count(sent, TerminalTypes) = 1

C23_Witness ==
  /\ runs = <<"stream_tools", "stream_no_tools", "run">>
  /\ outcomes = <<"raised", "returned", "returned">>
  /\ AssistantAppended
  /\ StreamClosed
  /\ Last(sent).type = "done"

\* ------------------------------------------------ reading the consuming loop
\* the events the generator has taken from the queue
Consumed == SubSeq(emitted, 1, Len(emitted) - Len(event_queue))

LeavingSignals == {"_internal_worker_done", "_internal_worker_error"}

InLoop == gen_pc = "loop"

Takes(type) ==
  /\ InLoop
  /\ event_queue # <<>>
  /\ Head(event_queue).type = type
  /\ Len(event_queue') < Len(event_queue)

\* the wait on the queue times out and a heartbeat is yielded
TimesOut == last_yield # "heartbeat" /\ last_yield' = "heartbeat"

LeavesOnSignalOnly ==
  /\ Positions(sent, InternalTypes) = {}
  /\ InLoop => Positions(Consumed, LeavingSignals) = {}
  /\ LeftLoop =>
       /\ Positions(Consumed, LeavingSignals) = {Len(Consumed)}
       /\ gen_exception \/ Persisting \/
            (Last(Consumed).type = "_internal_worker_error" <=> Last(sent).type = "error")

LoopStep ==
  /\ TimesOut =>
       /\ InLoop /\ InLoop'
       /\ event_queue = <<>>
       /\ UNCHANGED <<sent, full_response, event_queue>>
  /\ Takes("_internal_final_response") =>
       /\ InLoop'
       /\ full_response' = Head(event_queue).content
       /\ UNCHANGED <<sent, last_yield>>
  /\ InLoop /\ ~InLoop' =>
       \E type \in LeavingSignals : Takes(type)

\* C24: the consuming loop leaves only when it takes the worker-done or the
\* worker-error signal; a timeout gives one heartbeat comment (no data event)
\* and the loop goes on; taking the final-response signal only records the
\* text and the loop goes on; no internal signal is ever sent to the client.
C24_LoopLeavesOnSignal == [](LeavesOnSignalOnly) /\ [][LoopStep]_vars

C24_Witness ==
  /\ InLoop
  /\ last_yield = "heartbeat"
  /\ Truthy(full_response)
  /\ Last(Consumed).type = "_internal_final_response"
  /\ Positions(sent, {"token"}) # {}

\* ---------------------------------------------- reading the storage sessions
WorkerRunning == worker_pc \notin {"not_started", "exited"}

WorkerStep ==
  \/ emitted' # emitted
  \/ tool_calls' # tool_calls
  \/ worker_pc # "not_started" /\ worker_pc' # worker_pc

SessionsClosed ==
  /\ sent # <<>> \/ worker_pc # "not_started" => db = "closed"
  /\ WorkerRunning \/ InLoop => db = "closed" /\ write_db = "unopened"
  /\ write_db # "unopened" => worker_pc = "exited" /\ LeftLoop
  /\ Count(sent, {"conversation", "done"}) >= 1 => write_db \in {"unopened", "closed"}
  /\ Count(sent, {"conversation"}) >= 1 => write_db = "closed"

SessionStep ==
  /\ write_db' # write_db =>
       /\ gen_pc = "persist"
       /\ worker_pc = "exited"
       /\ db = "closed"
       /\ write_db = "unopened" /\ write_db' = "closed"
  /\ WorkerStep => UNCHANGED <<db, write_db>>

\* C25: the Init-phase session is closed before start is emitted and before
\* the worker starts; no session of the orchestrator is open while the worker
\* runs or the generator waits on the queue; the persisting step opens a fresh
\* session only after the worker finished and closes it before conversation
\* and done are emitted; no step of the worker touches either session.
C25_SessionsClosedWhileStreaming == [](SessionsClosed) /\ [][SessionStep]_vars

C25_Witness ==
  /\ StreamClosed
  /\ Count(sent, {"conversation"}) = 1
  /\ Last(sent).type = "done"
  /\ db = "closed"
  /\ write_db = "closed"
  /\ worker_pc = "exited"

\* -------------------------------------------------- reading the call table
\* every start callback is followed by an end callback of the same invocation
\* (the framework hands both the same call id, also when it is empty)
EveryStartEnded ==
  \A n \in DOMAIN callbacks :
    callbacks[n].cb = "start" =>
      \E m \in DOMAIN callbacks :
        /\ m > n
        /\ callbacks[m].cb = "end"
        /\ callbacks[m].call_id = callbacks[n].call_id

\* C26: after callbacks in which every start has been followed by its end
\* callback the call table is empty, for supplied and for generated call ids.
C26_TableEmptyWhenAllEnded == EveryStartEnded => tool_calls = {}

\* --------------------------------------------------- reading a disconnect
Disconnected == gen_pc = "cancelled"

UserMessageStored ==
  /\ appended # <<>> /\ appended[1] = "user"
  /\ Exists(conversation_id) =>
       \E i \in DOMAIN messages[conversation_id] :
         messages[conversation_id][i] = Msg("user", Message)

WorkerCompleted ==
  /\ runs # <<>>
  /\ Len(outcomes) = Len(runs)
  /\ emitted # <<>>
  /\ Last(emitted).type = "_internal_worker_done"

\* C27 as stated: when the client stops reading before the terminal event the
\* worker runs its attempts to completion, the user message stays stored and
\* no assistant message is appended.
C27_DisconnectAppendsNoAssistant ==
  Disconnected =>
    /\ worker_pc # "not_started"
    /\ WorkerRunning => ENABLED Worker
    /\ worker_pc = "exited" => WorkerCompleted
    /\ UserMessageStored
    /\ ~AssistantAppended

\* C27, amended: a worker that was started is never interrupted by the
\* disconnect and runs to completion (none was started when the client went
\* away while start was being sent); the user message stays stored; an
\* assistant message has been appended exactly when the disconnect came after
\* the persisting step, while the conversation event was being sent.
C27_DisconnectKeepsWorker ==
  Disconnected =>
    /\ worker_pc = "not_started" => Len(sent) = 1 /\ runs = <<>>
    /\ WorkerRunning => ENABLED Worker
    /\ worker_pc = "exited" => WorkerCompleted
    /\ UserMessageStored
    /\ AssistantAppended <=> Last(sent).type = "conversation"

C27_Witness ==
  /\ Disconnected
  /\ Len(sent) = 1
  /\ worker_pc = "exited"
  /\ runs = <<"stream_tools", "stream_no_tools">>
  /\ Count(event_queue, {"_internal_final_response"}) = 1
  /\ ~AssistantAppended
  /\ UserMessageStored

\* C28: once the warning with code tool_fallback has been emitted no
\* tool_start event follows it in that request, neither in the tools-disabled
\* retry nor in the non-streaming fallback.
C28_NoToolStartAfterWarning ==
  /\ Positions(AfterWarning(emitted), {"tool_start"}) = {}
  /\ Positions(AfterWarning(sent), {"tool_start"}) = {}

\* ------------------------------------------- reading concurrent requests
Admitted(r) == requests[r].pc \in {"inference", "finished"}

\* C29: with enforcement on, whatever the interleaving of concurrent agent
\* requests of one user, the user messages recorded for that user within the
\* day never exceed the daily limit of the tier.
C29_WithinDailyLimit ==
  /\ _count_today_user_messages(Caller) <= DailyLimit
  /\ \A r \in DOMAIN requests :
       requests[r].pc = "rejected" => _count_today_user_messages(Caller) = DailyLimit

C29_Witness ==
  /\ _count_today_user_messages(Caller) = DailyLimit
  /\ requests[1].pc = "rejected"
  /\ requests[2].pc = "inference"
  /\ requests[2].cid = 3

\* ------------------------------------------- reading the appended messages
AssistantsWithinUsers ==
  \A c \in ConvIds :
    CountRole(messages[c], "assistant") <= CountRole(messages[c], "user")

EndsWith(type) == StreamClosed /\ Last(sent).type = type

\* C30 as stated: an accepted request appends exactly one user message and at
\* most one assistant message, the latter only on a path that ends with done;
\* a request that ends with error appends no assistant message; no
\* conversation has more assistant than user messages.
C30_AssistantOnlyWithDone ==
  /\ Accepted => appended \in {<<"user">>, <<"user", "assistant">>}
  /\ ~Accepted => appended = <<>>
  /\ AssistantAppended /\ (StreamClosed \/ Disconnected) => EndsWith("done")
  /\ EndsWith("error") => NoAssistantRecorded
  /\ AssistantsWithinUsers

\* C30, amended: an accepted request appends exactly one user message and at
\* most one assistant message, the latter only in the persisting step, after
\* the worker finished without error and reported a non-empty response; a
\* request that ends with error because the worker failed (or because
\* persisting failed before its commit) appends no assistant message even if
\* tokens were sent; with an assistant message stored the stream ends with
\* done unless persisting raised after its commit or the client went away;
\* no conversation has more assistant than user messages.
C30_AssistantOnlyAfterPersisting ==
  /\ Accepted => appended \in {<<"user">>, <<"user", "assistant">>}
  /\ ~Accepted => appended = <<>>
  /\ AssistantAppended =>
       /\ write_db = "closed"
       /\ conversation_obj = "found"
       /\ worker_pc = "exited"
       /\ ~WorkerReportedError
       /\ Truthy(full_response)
  /\ AssistantAppended /\ StreamClosed => EndsWith("done") \/ gen_exception
  /\ AssistantAppended /\ Disconnected => Last(sent).type = "conversation"
  /\ EndsWith("error") /\ WorkerReportedError => NoAssistantRecorded
  /\ EndsWith("error") /\ conversation_obj # "found" => NoAssistantRecorded
  /\ AssistantsWithinUsers

C30_Witness ==
  /\ EndsWith("error")
  /\ WorkerReportedError
  /\ Count(sent, {"token"}) >= 1
  /\ appended = <<"user">>
  /\ AssistantsWithinUsers

====
